---- MODULE Spec2Model ----
(***************************************************************************)
(* Session orchestrator of src/main.ts: connection lifecycle, the          *)
(* intent-to-stay-connected flag, capture wiring and the playback queue.   *)
(*                                                                         *)
(* The program runs on one event loop.  Every action below is one turn of  *)
(* that loop: a handler from its entry to its first await (or its end), or *)
(* the continuation after an await.  The Transport, the audio elements and *)
(* the microphone are external objects; the model keeps, for each of them, *)
(* which of its events are still to be delivered.                          *)
(*                                                                         *)
(* What the external objects are taken to do:                              *)
(*  - a Transport delivers its opened event at most once, then messages,   *)
(*    then its closed event once; it may close at any time (server,        *)
(*    network, or close()); once close() was called on it, it delivers no  *)
(*    opened event and no message any more, only its closed event;         *)
(*  - an audio element whose media reaches its end queues its ended event; *)
(*    pause() on a playing element stops it for good, pause() on an        *)
(*    element that has reached its end does not take the queued event      *)
(*    back;                                                                *)
(*  - every await (the connect handshake, getAudioStream) yields to the    *)
(*    event loop and may throw.                                            *)
(***************************************************************************)
EXTENDS Naturals, Sequences, FiniteSets

\* ------------------------------------------------------------------ bounds
\* Each specification bounds the connect() calls and the audio_output messages
\* of a run.  Attempt i, if its handshake succeeds, creates Transport i; the
\* opened event of Transport i starts capture i; chunk c is the c-th
\* audio_output message to arrive.
\* Spec, SpecNoResume:
MaxConnects == 2
MaxChunks == 1
\* SpecSession, the connection manager at length (with MaxChunks):
MaxSessionConnects == 3
\* SpecPlayback, the playback queue at length (with MaxConnects):
MaxPlaybackChunks == 3
\* distinct chatGroupId payloads of chat_metadata messages
MaxGroups == 1
\* SpecCapture, the capture pipeline at length: connect() calls, the chunks the
\* recorders deliver in a run (chunk k is the k-th to be delivered) and the
\* largest size of a chunk
MaxCaptureConnects == 1
MaxOutChunks == 3
MaxSize == 1
\* SpecDrain, the playback queue left to drain (with MaxConnects):
MaxDrainChunks == 2

Largest(a, b) == IF a > b THEN a ELSE b

ConnIds == 1..Largest(Largest(MaxConnects, MaxSessionConnects), MaxCaptureConnects)
ChunkIds == 1..Largest(Largest(MaxChunks, MaxPlaybackChunks), MaxDrainChunks)
OutIds == 1..MaxOutChunks
GroupIds == 1..MaxGroups

\* null / undefined
None == 0

VARIABLES
  isConnected,    \* main.ts:24   flag mirrored on the toggle button
  client,         \* main.ts:31   TRUE once the HumeClient exists
  socket,         \* main.ts:36   None or the id of the ChatSocket
  connected,      \* main.ts:41   intended state of the WebSocket
  recorder,       \* main.ts:46   None or the id of the MediaRecorder
  audioStream,    \* main.ts:51   None or the id of the MediaStream
  currentAudio,   \* main.ts:56   None or the chunk of the current Audio element
  isPlaying,      \* main.ts:61
  resumeChats,    \* main.ts:66
  chatGroupId,    \* main.ts:71   None or a group id
  audioQueue,     \* main.ts:76   sequence of chunks
  conn,           \* per connect() call: its handshake, then its Transport
  resumed,        \* per handshake in flight: the resumedChatGroupId it carries
  closeRequested, \* Transports on which close() was called
  capture,        \* per captureAudio() call: its await, then its recorder
  audio,          \* per chunk: where it is on its way through playback
  lastMeta,       \* payload of the most recent chat_metadata message
  flushed,        \* stopped recorders that have delivered their last chunk
  out,            \* per recorded chunk: where it is on its way out
  outSize,        \* per recorded chunk: data.size
  outRec,         \* per recorded chunk: the recorder that delivered it
  sent            \* the chunks passed to sendAudioInput, in call order

\* the capture pipeline's chunks
outbound == <<flushed, out, outSize, outRec, sent>>

vars == <<isConnected, client, socket, connected, recorder, audioStream,
          currentAudio, isPlaying, resumeChats, chatGroupId, audioQueue,
          conn, resumed, closeRequested, capture, audio, lastMeta, outbound>>

\* conn[i]:    "none"       connect() call i not made yet
\*             "handshake"  awaiting client.empathicVoice.chat.connect (line 100)
\*             "failed"     the await threw (line 112)
\*             "connecting" Transport created, handlers registered, not opened
\*             "open"       opened event delivered
\*             "closed"     closed event delivered
\* resumed[i]: the resume id handshake i carries to the service (None: none),
\*             None again once the handshake is over
\* capture[i]: "none" | "awaiting" (getAudioStream, line 152) | "failed"
\*             | "running" (recorder started) | "stopped"
\* audio[c]:   "new" (not arrived) | "queued" | "playing"
\*             | "ended"   playback reached the end, the ended event is queued
\*             | "stale"   as "ended", but stopAudio has discarded the element
\*             | "done"    ended event delivered, or paused while playing
\*             | "dropped" removed from the queue by stopAudio
\* out[k]:     "none" (not delivered) | "empty" (size < 1, line 162)
\*             | "encoding" (awaiting convertBlobToBase64, line 165)
\*             | "sent" (passed to sendAudioInput, line 173)
\*             | "unsent" (socket was null at line 173)

TypeOK ==
  /\ isConnected \in BOOLEAN /\ client \in BOOLEAN /\ connected \in BOOLEAN
  /\ isPlaying \in BOOLEAN /\ resumeChats \in BOOLEAN
  /\ socket \in ConnIds \cup {None}
  /\ recorder \in ConnIds \cup {None}
  /\ audioStream \in ConnIds \cup {None}
  /\ currentAudio \in ChunkIds \cup {None}
  /\ chatGroupId \in GroupIds \cup {None}
  /\ lastMeta \in GroupIds \cup {None}
  /\ audioQueue \in Seq(ChunkIds)
  /\ conn \in [ConnIds -> {"none", "handshake", "failed", "connecting", "open", "closed"}]
  /\ resumed \in [ConnIds -> GroupIds \cup {None}]
  /\ closeRequested \subseteq ConnIds
  /\ capture \in [ConnIds -> {"none", "awaiting", "failed", "running", "stopped"}]
  /\ audio \in [ChunkIds -> {"new", "queued", "playing", "ended", "stale", "done", "dropped"}]
  /\ flushed \subseteq ConnIds
  /\ out \in [OutIds -> {"none", "empty", "encoding", "sent", "unsent"}]
  /\ outSize \in [OutIds -> 0..MaxSize]
  /\ outRec \in [OutIds -> ConnIds \cup {None}]
  /\ sent \in Seq(OutIds)

\* ------------------------------------------------------------ playback queue

Range(s) == {s[k] : k \in 1..Len(s)}

\* The playback part of the state, as the record playAudio and stopAudio work on.
Playback(q, playing, cur, aud) ==
  [audioQueue |-> q, isPlaying |-> playing, currentAudio |-> cur, audio |-> aud]

\* playAudio, lines 184-212: nothing when the queue is empty or a chunk plays;
\* else shift the head, make it the current element and play it.  (The shifted
\* blob is never undefined: the queue was just found non-empty.)
playAudio(p) ==
  IF Len(p.audioQueue) = 0 \/ p.isPlaying
  THEN p
  ELSE LET audioBlob == Head(p.audioQueue)
       IN Playback(Tail(p.audioQueue), TRUE, audioBlob,
                   [p.audio EXCEPT ![audioBlob] = "playing"])

\* HTMLMediaElement.pause() on the element of chunk c: a playing element stops
\* and will fire no ended event; the ended event of an element that has already
\* reached its end stays queued and is delivered later.
Pause(aud, c) ==
  IF c = None THEN aud
  ELSE [aud EXCEPT ![c] = CASE aud[c] = "playing" -> "done"
                            [] aud[c] = "ended" -> "stale"
                            [] OTHER -> aud[c]]

\* stopAudio, lines 217-227
stopAudio(p) ==
  LET paused == Pause(p.audio, p.currentAudio)
  IN Playback(<<>>, FALSE, None,
              [c \in ChunkIds |->
                 IF c \in Range(p.audioQueue) THEN "dropped" ELSE paused[c]])

\* a completion callback that clears isPlaying and starts nothing
onendedHandlerIdle(p) == [p EXCEPT !.isPlaying = FALSE]

\* currentAudio.onended, lines 205-211
onendedHandler(p) ==
  LET q == [p EXCEPT !.isPlaying = FALSE]
  IN IF Len(q.audioQueue) > 0 THEN playAudio(q) ELSE q

Now == Playback(audioQueue, isPlaying, currentAudio, audio)

SetPlayback(p) ==
  /\ audioQueue' = p.audioQueue
  /\ isPlaying' = p.isPlaying
  /\ currentAudio' = p.currentAudio
  /\ audio' = p.audio

\* The chunks being rendered: from play() until the element is paused or its
\* completion is delivered to the program.
Rendering == {c \in ChunkIds : audio[c] \in {"playing", "ended"}}

\* ------------------------------------------------------- connection manager

Attempts == Cardinality({i \in ConnIds : conn[i] # "none"})

\* a connect() that passes no resume id
resumedChatGroupIdOmitted == None

\* resumedChatGroupId of line 102: the stored chatGroupId, whatever resumeChats is
resumedChatGroupId == chatGroupId

\* connect(), lines 89-100, up to its await: creates the client when there is
\* none and starts the handshake, passing the resume id.  `c` is the Transports
\* as the caller leaves them, `maxConnects` the bound on the calls of a run.
connectCall(c, maxConnects) ==
  LET i == Attempts + 1
  IN /\ i <= maxConnects
     /\ client' = TRUE
     /\ conn' = [c EXCEPT ![i] = "handshake"]
     /\ resumed' = [resumed EXCEPT ![i] = resumedChatGroupId]

\* a connect() that sets connected and starts the capture itself
connectResolvedCapturing(i) ==
  /\ conn[i] = "handshake"
  /\ conn' = [conn EXCEPT ![i] = "connecting"]
  /\ socket' = i
  /\ isConnected' = TRUE
  /\ resumed' = [resumed EXCEPT ![i] = None]
  /\ connected' = TRUE
  /\ capture' = [capture EXCEPT ![i] = "awaiting"]
  /\ UNCHANGED <<client, recorder, audioStream, currentAudio,
                 isPlaying, resumeChats, chatGroupId, audioQueue,
                 closeRequested, audio, lastMeta, outbound>>

\* connect(), lines 100-111, after the await returned a Transport: the four
\* handlers are registered on it and the connected flag is shown on the button.
connectResolved(i) ==
  /\ conn[i] = "handshake"
  /\ conn' = [conn EXCEPT ![i] = "connecting"]
  /\ socket' = i
  /\ isConnected' = TRUE
  /\ resumed' = [resumed EXCEPT ![i] = None]
  /\ UNCHANGED <<client, connected, recorder, audioStream, currentAudio,
                 isPlaying, resumeChats, chatGroupId, audioQueue,
                 closeRequested, capture, audio, lastMeta, outbound>>

\* connect(), lines 112-115, the await threw: the error is logged, no variable
\* is assigned.
connectFailed(i) ==
  /\ conn[i] = "handshake"
  /\ conn' = [conn EXCEPT ![i] = "failed"]
  /\ resumed' = [resumed EXCEPT ![i] = None]
  /\ UNCHANGED <<isConnected, client, socket, connected, recorder, audioStream,
                 currentAudio, isPlaying, resumeChats, chatGroupId, audioQueue,
                 closeRequested, capture, audio, lastMeta, outbound>>

\* The part of the state disconnect() reads and writes.
Session ==
  [playback |-> Now, recorder |-> recorder, audioStream |-> audioStream,
   connected |-> connected, chatGroupId |-> chatGroupId,
   isConnected |-> isConnected, capture |-> capture,
   closeRequested |-> closeRequested]

\* a disconnect() that flips the flag shown on the button instead of clearing it
disconnectStateFlipping(s) ==
  [playback |-> stopAudio(s.playback),
   recorder |-> None,
   audioStream |-> None,
   connected |-> FALSE,
   chatGroupId |-> IF ~resumeChats THEN None ELSE s.chatGroupId,
   isConnected |-> ~s.isConnected,
   capture |-> IF s.recorder = None THEN s.capture
               ELSE [s.capture EXCEPT ![s.recorder] = "stopped"],
   closeRequested |-> IF socket # None /\ conn[socket] \in {"connecting", "open"}
                      THEN s.closeRequested \cup {socket}
                      ELSE s.closeRequested]

\* disconnect(), lines 121-143.  recorder?.stop() stops the recorder the
\* variable refers to; socket?.close() asks the Transport the variable refers
\* to to close (nothing on one that has already closed).
disconnectState(s) ==
  [playback |-> stopAudio(s.playback),
   recorder |-> None,
   audioStream |-> None,
   connected |-> FALSE,
   chatGroupId |-> IF ~resumeChats THEN None ELSE s.chatGroupId,
   isConnected |-> FALSE,
   capture |-> IF s.recorder = None THEN s.capture
               ELSE [s.capture EXCEPT ![s.recorder] = "stopped"],
   closeRequested |-> IF socket # None /\ conn[socket] \in {"connecting", "open"}
                      THEN s.closeRequested \cup {socket}
                      ELSE s.closeRequested]

disconnect ==
  LET s == disconnectState(Session)
  IN /\ SetPlayback(s.playback)
     /\ recorder' = s.recorder
     /\ audioStream' = s.audioStream
     /\ connected' = s.connected
     /\ chatGroupId' = s.chatGroupId
     /\ isConnected' = s.isConnected
     /\ capture' = s.capture
     /\ closeRequested' = s.closeRequested
     /\ UNCHANGED <<client, socket, resumeChats, conn, resumed, lastMeta, outbound>>

\* toggleConnection, lines 308-316: a click on the toggle button
toggleConnection(maxConnects) ==
  IF isConnected
  THEN disconnect
  ELSE /\ connectCall(conn, maxConnects)
       /\ UNCHANGED <<isConnected, socket, connected, recorder, audioStream,
                      currentAudio, isPlaying, resumeChats, chatGroupId,
                      audioQueue, closeRequested, capture, audio, lastMeta, outbound>>

\* handleWebSocketOpenEvent, lines 232-240, up to the await in captureAudio
\* (line 152).  A Transport asked to close before it opened never opens.
handleWebSocketOpenEvent(i) ==
  /\ conn[i] = "connecting"
  /\ i \notin closeRequested
  /\ conn' = [conn EXCEPT ![i] = "open"]
  /\ connected' = TRUE
  /\ capture' = [capture EXCEPT ![i] = "awaiting"]
  /\ UNCHANGED <<isConnected, client, socket, recorder, audioStream,
                 currentAudio, isPlaying, resumeChats, chatGroupId, audioQueue,
                 resumed, closeRequested, audio, lastMeta, outbound>>

\* handleWebSocketCloseEvent, lines 281-292: the closed event of Transport i,
\* whether the server, the network or close() ended it.
handleWebSocketCloseEvent(i, maxConnects) ==
  /\ conn[i] \in {"connecting", "open"}
  /\ IF connected
     THEN connectCall([conn EXCEPT ![i] = "closed"], maxConnects)
     ELSE /\ conn' = [conn EXCEPT ![i] = "closed"]
          /\ UNCHANGED <<client, resumed>>
  /\ UNCHANGED <<isConnected, socket, connected, recorder, audioStream,
                 currentAudio, isPlaying, resumeChats, chatGroupId, audioQueue,
                 closeRequested, capture, audio, lastMeta, outbound>>

\* ---------------------------------------------------------- capture pipeline

\* captureAudio, lines 152-178, after getAudioStream returned the stream of
\* call i: the stream is stored; ensureSingleValidAudioTrack throws when the
\* stream has not exactly one track (valid = FALSE), and then no recorder is
\* made; else the recorder is made and started.
captureAudioResolved(i, valid) ==
  /\ capture[i] = "awaiting"
  /\ audioStream' = i
  /\ IF valid
     THEN /\ recorder' = i
          /\ capture' = [capture EXCEPT ![i] = "running"]
     ELSE /\ recorder' = recorder
          /\ capture' = [capture EXCEPT ![i] = "failed"]
  /\ UNCHANGED <<isConnected, client, socket, connected, currentAudio,
                 isPlaying, resumeChats, chatGroupId, audioQueue, conn,
                 resumed, closeRequested, audio, lastMeta, outbound>>

\* captureAudio, line 152: getAudioStream rejected (no device, no permission)
captureAudioFailed(i) ==
  /\ capture[i] = "awaiting"
  /\ capture' = [capture EXCEPT ![i] = "failed"]
  /\ UNCHANGED <<isConnected, client, socket, connected, recorder, audioStream,
                 currentAudio, isPlaying, resumeChats, chatGroupId, audioQueue,
                 conn, resumed, closeRequested, audio, lastMeta, outbound>>

\* number of chunks the recorders have delivered so far
Delivered == Cardinality({k \in OutIds : out[k] # "none"})

\* ondataavailable without the size check of line 162
ondataavailableUnchecked(i, size, maxOut) ==
  LET data == Delivered + 1
  IN /\ data <= maxOut
     /\ out' = [out EXCEPT ![data] = "encoding"]
     /\ outSize' = [outSize EXCEPT ![data] = size]
     /\ outRec' = [outRec EXCEPT ![data] = i]
     /\ sent' = sent

\* recorder.ondataavailable, lines 160-165, up to its await, for the chunk
\* `data` of `size` bytes that recorder i delivers: nothing for a chunk of
\* less than one byte, else the encoding starts.
ondataavailable(i, size, maxOut) ==
  LET data == Delivered + 1
  IN /\ data <= maxOut
     /\ out' = [out EXCEPT ![data] = IF size < 1 THEN "empty" ELSE "encoding"]
     /\ outSize' = [outSize EXCEPT ![data] = size]
     /\ outRec' = [outRec EXCEPT ![data] = i]
     /\ sent' = sent

\* The running recorder i delivers the chunk of a time slice (line 178).
dataAvailable(i, size, maxOut) ==
  /\ capture[i] = "running"
  /\ ondataavailable(i, size, maxOut)
  /\ UNCHANGED <<isConnected, client, socket, connected, recorder, audioStream,
                 currentAudio, isPlaying, resumeChats, chatGroupId, audioQueue,
                 conn, resumed, closeRequested, capture, audio, lastMeta,
                 flushed>>

\* MediaRecorder.stop() (line 126) makes the recorder deliver what it has
\* gathered since its last chunk in one more dataavailable event.
lastDataAvailable(i, size, maxOut) ==
  /\ capture[i] = "stopped"
  /\ i \notin flushed
  /\ flushed' = flushed \cup {i}
  /\ ondataavailable(i, size, maxOut)
  /\ UNCHANGED <<isConnected, client, socket, connected, recorder, audioStream,
                 currentAudio, isPlaying, resumeChats, chatGroupId, audioQueue,
                 conn, resumed, closeRequested, capture, audio, lastMeta>>

\* a sender that passes the chunks on in the order they were delivered
encodedInOrder(k) ==
  /\ out[k] = "encoding"
  /\ \A j \in 1..(k - 1) : out[j] # "encoding"
  /\ out' = [out EXCEPT ![k] = "sent"]
  /\ sent' = Append(sent, k)
  /\ UNCHANGED <<isConnected, client, socket, connected, recorder, audioStream,
                 currentAudio, isPlaying, resumeChats, chatGroupId, audioQueue,
                 conn, resumed, closeRequested, capture, audio, lastMeta,
                 flushed, outSize, outRec>>

\* recorder.ondataavailable, lines 165-173, after convertBlobToBase64 returned
\* the encoding of chunk k: socket?.sendAudioInput is called on the Transport
\* the variable refers to now.
encoded(k) ==
  /\ out[k] = "encoding"
  /\ IF socket # None
     THEN /\ out' = [out EXCEPT ![k] = "sent"]
          /\ sent' = Append(sent, k)
     ELSE /\ out' = [out EXCEPT ![k] = "unsent"]
          /\ sent' = sent
  /\ UNCHANGED <<isConnected, client, socket, connected, recorder, audioStream,
                 currentAudio, isPlaying, resumeChats, chatGroupId, audioQueue,
                 conn, resumed, closeRequested, capture, audio, lastMeta,
                 flushed, outSize, outRec>>

\* ------------------------------------------------- inbound message dispatch

\* A Transport delivers messages between its opened and its closed event, and
\* none once close() was called on it.
Receiving(i) == conn[i] = "open" /\ i \notin closeRequested

\* handleWebSocketMessageEvent, lines 251-268, for a message of Transport i.
\* A message of any other type than the three below assigns nothing.
chatMetadata(i, g) ==
  /\ Receiving(i)
  /\ chatGroupId' = g
  /\ lastMeta' = g
  /\ UNCHANGED <<isConnected, client, socket, connected, recorder, audioStream,
                 currentAudio, isPlaying, resumeChats, audioQueue, conn,
                 resumed, closeRequested, capture, audio, outbound>>

\* number of audio_output messages received so far
Arrived == Cardinality({c \in ChunkIds : audio[c] # "new"})

\* lines 258-263: the chunk is pushed and playAudio called
enqueue(p, c) ==
  playAudio([p EXCEPT !.audioQueue = Append(p.audioQueue, c),
                      !.audio = [p.audio EXCEPT ![c] = "queued"]])

audioOutput(i, maxChunks) ==
  /\ Receiving(i)
  /\ Arrived < maxChunks
  /\ SetPlayback(enqueue(Now, Arrived + 1))
  /\ UNCHANGED <<isConnected, client, socket, connected, recorder, audioStream,
                 resumeChats, chatGroupId, conn, resumed, closeRequested,
                 capture, lastMeta, outbound>>

\* lines 264-266
userInterruption(i) ==
  /\ Receiving(i)
  /\ SetPlayback(stopAudio(Now))
  /\ UNCHANGED <<isConnected, client, socket, connected, recorder, audioStream,
                 resumeChats, chatGroupId, conn, resumed, closeRequested,
                 capture, lastMeta, outbound>>

\* The audio element of chunk c reaches the end of its media: rendering is
\* over and the element's ended event is queued.
playbackEnds(c) ==
  /\ audio[c] = "playing"
  /\ audio' = [audio EXCEPT ![c] = "ended"]
  /\ UNCHANGED <<isConnected, client, socket, connected, recorder, audioStream,
                 currentAudio, isPlaying, resumeChats, chatGroupId, audioQueue,
                 conn, resumed, closeRequested, capture, lastMeta, outbound>>

\* The queued ended event of chunk c's element is delivered: lines 205-211.
onended(c) ==
  /\ audio[c] \in {"ended", "stale"}
  /\ SetPlayback(onendedHandler([Now EXCEPT !.audio[c] = "done"]))
  /\ UNCHANGED <<isConnected, client, socket, connected, recorder, audioStream,
                 resumeChats, chatGroupId, conn, resumed, closeRequested,
                 capture, lastMeta, outbound>>

\* ------------------------------------------------------------ specification

InitWith(resume) ==
  /\ isConnected = FALSE /\ client = FALSE /\ socket = None
  /\ connected = FALSE /\ recorder = None /\ audioStream = None
  /\ currentAudio = None /\ isPlaying = FALSE
  /\ resumeChats = resume
  /\ chatGroupId = None
  /\ audioQueue = <<>>
  /\ conn = [i \in ConnIds |-> "none"]
  /\ resumed = [i \in ConnIds |-> None]
  /\ closeRequested = {}
  /\ capture = [i \in ConnIds |-> "none"]
  /\ audio = [c \in ChunkIds |-> "new"]
  /\ lastMeta = None
  /\ flushed = {}
  /\ out = [k \in OutIds |-> "none"]
  /\ outSize = [k \in OutIds |-> 0]
  /\ outRec = [k \in OutIds |-> None]
  /\ sent = <<>>

\* the program as written: resumeChats = true (line 66)
Init == InitWith(TRUE)

\* the program built with the resumeChats flag of line 66 set to false, the
\* case lines 133-136 are written for
InitNoResume == InitWith(FALSE)

NextWith(maxConnects, maxChunks) ==
  \/ toggleConnection(maxConnects)
  \/ \E i \in ConnIds : connectResolved(i)
  \/ \E i \in ConnIds : connectFailed(i)
  \/ \E i \in ConnIds : handleWebSocketOpenEvent(i)
  \/ \E i \in ConnIds : handleWebSocketCloseEvent(i, maxConnects)
  \/ \E i \in ConnIds : \E valid \in BOOLEAN : captureAudioResolved(i, valid)
  \/ \E i \in ConnIds : captureAudioFailed(i)
  \/ \E i \in ConnIds : \E g \in GroupIds : chatMetadata(i, g)
  \/ \E i \in ConnIds : audioOutput(i, maxChunks)
  \/ \E i \in ConnIds : userInterruption(i)
  \/ \E c \in ChunkIds : playbackEnds(c)
  \/ \E c \in ChunkIds : onended(c)

Next == NextWith(MaxConnects, MaxChunks)

NextSession == NextWith(MaxSessionConnects, MaxChunks)

NextPlayback == NextWith(MaxConnects, MaxPlaybackChunks)

\* the connection manager and the capture pipeline, no inbound messages
NextCapture ==
  \/ toggleConnection(MaxCaptureConnects)
  \/ \E i \in ConnIds : connectResolved(i)
  \/ \E i \in ConnIds : connectFailed(i)
  \/ \E i \in ConnIds : handleWebSocketOpenEvent(i)
  \/ \E i \in ConnIds : handleWebSocketCloseEvent(i, MaxCaptureConnects)
  \/ \E i \in ConnIds : \E valid \in BOOLEAN : captureAudioResolved(i, valid)
  \/ \E i \in ConnIds : captureAudioFailed(i)
  \/ \E i \in ConnIds : \E size \in 0..MaxSize : dataAvailable(i, size, MaxOutChunks)
  \/ \E i \in ConnIds : \E size \in 0..MaxSize : lastDataAvailable(i, size, MaxOutChunks)
  \/ \E k \in OutIds : encoded(k)

\* toggleConnection(), line 311, clicked while the button shows "disconnected"
startSession(maxConnects) == ~isConnected /\ toggleConnection(maxConnects)

\* the steps of a run in which nothing calls stopAudio: no disconnect() and
\* no user_interruption
NextDrain ==
  \/ startSession(MaxConnects)
  \/ \E i \in ConnIds : connectResolved(i)
  \/ \E i \in ConnIds : connectFailed(i)
  \/ \E i \in ConnIds : handleWebSocketOpenEvent(i)
  \/ \E i \in ConnIds : handleWebSocketCloseEvent(i, MaxConnects)
  \/ \E i \in ConnIds : \E valid \in BOOLEAN : captureAudioResolved(i, valid)
  \/ \E i \in ConnIds : captureAudioFailed(i)
  \/ \E i \in ConnIds : \E g \in GroupIds : chatMetadata(i, g)
  \/ \E i \in ConnIds : audioOutput(i, MaxDrainChunks)
  \/ \E c \in ChunkIds : playbackEnds(c)
  \/ \E c \in ChunkIds : onended(c)

\* Every await returns or throws: the handshake of connect() (line 100) and
\* getAudioStream() (line 152).
AwaitsReturn ==
  /\ \A i \in ConnIds : WF_vars(connectResolved(i) \/ connectFailed(i))
  /\ \A i \in ConnIds :
       WF_vars((\E valid \in BOOLEAN : captureAudioResolved(i, valid))
                 \/ captureAudioFailed(i))

\* Every render that started completes, and the event loop delivers the ended
\* event of an audio element to its onended callback.
RendersComplete ==
  \A c \in ChunkIds : WF_vars(playbackEnds(c)) /\ WF_vars(onended(c))

Spec == Init /\ [][Next]_vars

SpecCapture == Init /\ [][NextCapture]_vars

SpecReconnect ==
  Init /\ [][NextSession]_vars /\ AwaitsReturn /\ RendersComplete

SpecDrain == Init /\ [][NextDrain]_vars /\ AwaitsReturn /\ RendersComplete

SpecNoResume == InitNoResume /\ [][Next]_vars

SpecSession == Init /\ [][NextSession]_vars

SpecPlayback == Init /\ [][NextPlayback]_vars

\* ------------------------------------------------------------------ claims

\* C1: at most one chunk is being rendered, and isPlaying is true exactly when
\* a chunk is being rendered.
OnePlaybackCursor ==
  /\ Cardinality(Rendering) <= 1
  /\ isPlaying <=> (Rendering # {})

Starts(c) == audio[c] # "playing" /\ audio'[c] = "playing"

\* C2: a chunk that starts rendering was enqueued and has not been rendered
\* before, and every chunk that arrived before it has by then started and
\* finished or been stopped.
ArrivalOrderNoOverlap ==
  [][\A c \in ChunkIds :
       Starts(c) =>
         /\ audio[c] = "queued" \/ (audio[c] = "new" /\ c = Arrived + 1)
         /\ \A b \in 1..(c - 1) :
              audio'[b] \notin {"new", "queued", "playing", "ended"}]_vars

\* C3: the completion callback of a chunk that stopAudio discarded changes
\* neither isPlaying nor the queue and starts no playback.
LateCompletionIsNoOp ==
  [][\A c \in ChunkIds :
       (audio[c] = "stale" /\ audio'[c] = "done") =>
         /\ isPlaying' = isPlaying
         /\ audioQueue' = audioQueue
         /\ \A b \in ChunkIds : ~Starts(b)]_vars

\* The Transports that are open or being opened: a handshake in flight, or a
\* Transport that has neither closed nor been asked to close.
Live ==
  {i \in ConnIds : conn[i] \in {"handshake", "connecting", "open"}
                   /\ i \notin closeRequested}

\* C4: at most one Transport is open or being opened at any time.
AtMostOneLiveTransport == Cardinality(Live) <= 1

Closes(i) == conn[i] \in {"connecting", "open"} /\ conn'[i] = "closed"

\* C5: the closed event of a Transport that disconnect() asked to close
\* triggers no connect().
NoReconnectAfterDisconnect ==
  [][\A i \in ConnIds :
       (Closes(i) /\ i \in closeRequested) => Attempts' = Attempts]_vars

\* C6: a closed event that arrives while connected is true makes exactly one
\* connect() call, and the resume id of its handshake is the chatGroupId of the
\* most recent chat_metadata message.
ReconnectOnceWithResumeId ==
  [][\A i \in ConnIds :
       (Closes(i) /\ connected) =>
         /\ Attempts' = Attempts + 1
         /\ conn'[Attempts + 1] = "handshake"
         /\ resumed'[Attempts + 1] = lastMeta]_vars

\* C6, witness: Transport 1 closed without having been asked to, and the
\* handshake of the reconnect carries the id a chat_metadata message stored.
ReconnectCarriesResumeId ==
  /\ conn[1] = "closed" /\ 1 \notin closeRequested
  /\ conn[2] = "handshake"
  /\ lastMeta # None /\ resumed[2] = lastMeta
  /\ connected

FailedConnectLeavesDisconnected ==
  [][\A i \in ConnIds :
       (conn[i] = "handshake" /\ conn'[i] = "failed") => ~isConnected']_vars

\* the variables C9 lists
Observed(s) ==
  [connected |-> s.connected, isConnected |-> s.isConnected,
   recorder |-> s.recorder, audioStream |-> s.audioStream,
   currentAudio |-> s.playback.currentAudio,
   isPlaying |-> s.playback.isPlaying,
   audioQueue |-> s.playback.audioQueue,
   chatGroupId |-> s.chatGroupId]

\* C9: from every reachable state, disconnect() called twice in a row leaves
\* the variables as one call leaves them.
DisconnectIdempotent ==
  Observed(disconnectState(disconnectState(Session)))
    = Observed(disconnectState(Session))

\* C9, witness: disconnect() has run while a recorder was running and a chunk
\* was playing (it stopped the one, paused the other and asked the Transport
\* to close), and a second call there changes nothing.
DisconnectedTwice ==
  /\ ~isConnected /\ ~connected /\ recorder = None /\ currentAudio = None
  /\ \E i \in closeRequested : capture[i] = "stopped"
  /\ \E c \in ChunkIds : audio[c] = "done"
  /\ Observed(disconnectState(Session)) = Observed(Session)

\* C10: a user_interruption that arrives while a chunk is rendering stops the
\* rendering, empties the queue and clears isPlaying in that step; and while
\* the queue is empty a chunk starts rendering only in the step that enqueues
\* it.
InterruptionStopsPlayback ==
  [][/\ ((\E i \in ConnIds : userInterruption(i)) /\ Rendering # {}) =>
          (Rendering' = {} /\ audioQueue' = <<>> /\ ~isPlaying')
     /\ (audioQueue = <<>> /\ \E c \in ChunkIds : Starts(c)) =>
          Arrived' = Arrived + 1]_vars

\* C11: every chunk passed to sendAudioInput was delivered by a recorder with a
\* size of at least 1, and no chunk is passed to it twice; a chunk of size
\* zero is never passed to it.
OnlyNonEmptyChunksSentOnce ==
  /\ \A n \in 1..Len(sent) :
       /\ out[sent[n]] = "sent"
       /\ outRec[sent[n]] # None
       /\ outSize[sent[n]] >= 1
  /\ \A m, n \in 1..Len(sent) : m # n => sent[m] # sent[n]
  /\ \A k \in OutIds : (out[k] # "none" /\ outSize[k] < 1) => out[k] = "empty"

\* C11, witness: a recorder has delivered a chunk of size zero and a later
\* chunk of size 1, and the later one has been sent.
EmptyChunkSkipped ==
  \E k, j \in OutIds :
    /\ k < j
    /\ out[k] = "empty" /\ outSize[k] = 0
    /\ out[j] = "sent" /\ outSize[j] >= 1
    /\ sent = <<j>>

\* the recorders that are recording
Running == {i \in ConnIds : capture[i] = "running"}

\* C12: at most one recorder is running at any time.
AtMostOneRecorderRunning == Cardinality(Running) <= 1

\* no connect() and no captureAudio() is waiting to continue
NoPendingContinuation ==
  \A i \in ConnIds : conn[i] # "handshake" /\ capture[i] # "awaiting"

\* C13: when disconnect() has run, or the Transport has closed and none is
\* being opened, and no continuation is pending, no recorder is running.
NoRecorderAfterDisconnect ==
  (NoPendingContinuation /\ (~isConnected \/ Live = {})) => Running = {}

\* chunk k is passed to sendAudioInput in this step
Sends(k) == out[k] # "sent" /\ out'[k] = "sent"

\* C14: a chunk is passed to sendAudioInput only while the recorder that
\* delivered it is running: once disconnect() has stopped the recorder, none
\* of its chunks is, whether its encoding was in flight then or the recorder
\* delivered it on being stopped.
NoSendAfterDisconnect ==
  [][\A k \in OutIds : Sends(k) => capture[outRec[k]] = "running"]_vars

\* C15: whenever connected is true and no Transport is open or being opened
\* (and the run has connect() calls left), a connect() is made later unless
\* connected becomes false first; and a connect() whose handshake throws leaves
\* connected as it was.
ReconnectsWhileIntended ==
  /\ (connected /\ Live = {} /\ Attempts < MaxSessionConnects)
       ~> (~connected \/ Live # {})
  /\ [][\A i \in ConnIds :
          (conn[i] = "handshake" /\ conn'[i] = "failed") =>
            connected' = connected]_vars

\* C16: socket does not refer to a Transport whose closed event has been
\* delivered.
SocketNullAfterClose == socket # None => conn[socket] # "closed"

\* C17: without a stopAudio, every chunk that is queued or rendering is
\* rendered to its end, and whenever isPlaying is true the queue later is empty
\* with isPlaying false.
QueueDrains ==
  /\ \A c \in ChunkIds :
       (audio[c] \in {"queued", "playing", "ended"}) ~> (audio[c] = "done")
  /\ isPlaying ~> (audioQueue = <<>> /\ ~isPlaying)

\* C17, witness: a chunk is rendering while another waits in the queue.
ChunkWaitsInQueue ==
  /\ isPlaying /\ audio[1] = "playing"
  /\ audioQueue = <<2>> /\ audio[2] = "queued"

\* C18: captureAudio is entered only in the step that delivers the opened
\* event of a Transport that connect() returned, a recorder starts only for a
\* Transport that has reported opened, and connected becomes true only in
\* the step of an opened event.
CaptureOnlyAfterOpened ==
  [][LET Opened(i) == conn[i] = "connecting" /\ conn'[i] = "open"
     IN /\ \A i \in ConnIds :
             (capture[i] = "none" /\ capture'[i] # "none") => Opened(i)
        /\ \A i \in ConnIds :
             (capture[i] # "running" /\ capture'[i] = "running") =>
               (capture[i] = "awaiting" /\ conn[i] \in {"open", "closed"})
        /\ (~connected /\ connected') => \E i \in ConnIds : Opened(i)]_vars

\* C18, witness: a recorder is running for an open Transport.
RecorderRunsOnOpenTransport ==
  \E i \in ConnIds :
    /\ conn[i] = "open" /\ capture[i] = "running"
    /\ recorder = i /\ socket = i /\ connected

\* C19: a chunk whose encoding is in flight can be passed to sendAudioInput
\* as soon as its own encoding returns, whatever chunks delivered before it
\* are still being encoded.
SendWaitsForNoEarlierChunk ==
  \A k \in OutIds : out[k] = "encoding" => ENABLED encoded(k)

\* C19, witness: two chunks of size 1 or more have been passed to
\* sendAudioInput, the one delivered later first.
SentOutOfOrder ==
  \E m, n \in 1..Len(sent) :
    /\ m < n /\ sent[m] > sent[n]
    /\ outSize[sent[m]] >= 1 /\ outSize[sent[n]] >= 1

====
